---------------------------- MODULE Spec2Model ----------------------------
(***************************************************************************)
(* Model of the macos.softwareupdate Ansible modules:                      *)
(*   - softwareupdate_auto_settings : the preference reconciler            *)
(*   - softwareupdate_install / softwareupdate_osinstall : detached        *)
(*     launch of an installer and confirmation by polling a log            *)
(*   - softwareupdate_list_installers : version parsing and ordering,      *)
(*     parsing of the installer listing                                    *)
(*   - softwareupdate_list_updates : parsing of the update listing         *)
(* Python values None/True/False are the strings "None"/"True"/"False";    *)
(* Python strings that the code takes apart are sequences of characters.   *)
(***************************************************************************)
EXTENDS Integers, Sequences, FiniteSets, TLC

VARIABLES
    (* ---- softwareupdate_auto_settings ---- *)
    store,        \* the defaults store: key -> what `defaults read` prints
    params,       \* module.params: key -> "None" | "True" | "False"
    check_mode,   \* module.check_mode of the current invocation
    rpc,          \* position of main(): "loop" | "exited" | "failed"
    idx,          \* index of the next entry of `changes` to process
    changed,      \* the local variable `changed` of main()
    reads,        \* outputs of `defaults read` in this invocation, in order
    writes,       \* `defaults write` commands issued in this invocation
    history,      \* one record per finished invocation
    store0        \* the store as it was when the current invocation began

rvars == <<store, params, check_mode, rpc, idx, changed, reads, writes,
           history, store0>>

VARIABLES
    (* ---- softwareupdate_install / softwareupdate_osinstall ---- *)
    op,           \* which module runs: "install" | "osinstall" | "poll"
    password,     \* module.params['password']
    label,        \* module.params['label'] (install)
    version,      \* module.params['version'] (osinstall)
    list_output,  \* outcome and lines of `softwareupdate --list`
    argv,         \* argument vector of the spawned process, <<>> before
    lpc,          \* position of main(): "start", "ready", "polling", an outcome
    spawns,       \* number of subprocess.check_call(cmd) made
    ticks,        \* number of iterations of the poll loop
    readErrors,   \* number of those in which reading the log raised
    now,          \* time.time(), in time units
    start_time,   \* check_log_for_progress: start_time
    timeout,      \* check_log_for_progress: timeout
    interval,     \* check_log_for_progress: interval
    logInit,      \* the log file before the spawn: "missing"|"empty"|"stale"
    truncAt,      \* when the child's `> log_path` truncates the file
    markerAt      \* when the child writes its first progress line, or Never

lvars == <<op, password, label, version, list_output, argv, lpc,
           spawns, ticks, readErrors, now, start_time, timeout, interval,
           logInit, truncAt, markerAt>>

VARIABLES
    (* ---- softwareupdate_list_installers: parse_version ---- *)
    verA,         \* a version string, as its characters
    verB,         \* another one
    parsedA,      \* parse_version(verA)
    parsedB,      \* parse_version(verB)
    a_gt_b,       \* parse_version(verA) > parse_version(verB), or "unset"
    b_gt_a,       \* parse_version(verB) > parse_version(verA), or "unset"
    vpc           \* "input" | "compared"

vvars == <<verA, verB, parsedA, parsedB, a_gt_b, b_gt_a, vpc>>

VARIABLES
    (* ---- softwareupdate_list_installers: main ---- *)
    latest_only,      \* module.params['latest_only']
    version_pattern,  \* module.params['version_pattern']
    cmd_output,       \* lines of `softwareupdate --list-full-installers`
    installers,       \* the list main() returns
    ipc               \* "start" | "exited" | "checkmode" | "failed"

ivars == <<latest_only, version_pattern, cmd_output, installers, ipc>>

VARIABLES
    (* ---- softwareupdate_list_updates: main ---- *)
    \* (version_pattern and cmd_output are the variables above)
    product_filter,   \* module.params['product']
    updates,          \* the list main() returns
    upc               \* "start" | "exited" | "checkmode" | "failed"

uvars == <<product_filter, updates, upc>>

vars == <<rvars, lvars, vvars, ivars, uvars>>

(***************************************************************************)
(* Bounds                                                                  *)
(***************************************************************************)
MaxKeys == 3      \* how many of the six managed keys the model carries
MaxRuns == 2      \* how many invocations follow each other
MaxLines == 2     \* lines of a `softwareupdate --list` output
MaxMarker == 6    \* latest time at which the child writes a progress line
MaxTimeout == 5   \* largest timeout check_log_for_progress is called with
MaxInterval == 3  \* largest interval check_log_for_progress is called with
MaxTicks == 12    \* the counters ticks and readErrors stop counting here
MaxVerLen == 3    \* characters of an enumerated version string
MaxInstLines == 2 \* lines of a `softwareupdate --list-full-installers` output
MaxUpdLines == 4  \* lines of the `softwareupdate --list` output that is parsed

(***************************************************************************)
(* softwareupdate_auto_settings.py                                         *)
(***************************************************************************)

\* The (domain, key) pairs in the order main() appends them to `changes`.
AllKeys ==
    << <<"SWU", "AutomaticCheckEnabled">>,
       <<"SWU", "AutomaticDownload">>,
       <<"SWU", "AutomaticallyInstallMacOSUpdates">>,
       <<"SWU", "ConfigDataInstall">>,
       <<"SWU", "CriticalUpdateInstall">>,
       <<"COMMERCE", "AutoUpdate">> >>

NumKeys == IF MaxKeys < Len(AllKeys) THEN MaxKeys ELSE Len(AllKeys)

Keys == {AllKeys[i] : i \in 1..NumKeys}

\* What `defaults read <domain> <key>` can do: print "1", print "0", print
\* something else, or exit non-zero because the key is absent.
StoreVals == {"1", "0", "other", "absent"}

PyBool(b) == IF b THEN "True" ELSE "False"

RECURSIVE BuildChanges(_, _)
BuildChanges(p, i) ==
    IF i > NumKeys THEN <<>>
    ELSE (IF p[AllKeys[i]] # "None"
             THEN << [key |-> AllKeys[i], value |-> (p[AllKeys[i]] = "True")] >>
             ELSE <<>>) \o BuildChanges(p, i + 1)

\* The list `changes` main() builds from the parameters that are not None.
changes == BuildChanges(params, 1)

\* read_default that takes an unknown value for false.
read_default_UnknownIsFalse(st, key) ==
    IF st[key] = "1" THEN "True" ELSE "False"

\* read_default that takes "0" for an unknown value.
read_default_ZeroUnknown(st, key) ==
    IF st[key] = "1" THEN "True" ELSE "None"

read_default(st, key) ==
    IF st[key] = "absent" THEN "None"       \* CalledProcessError
    ELSE IF st[key] = "1" THEN "True"
    ELSE IF st[key] = "0" THEN "False"
    ELSE "None"

\* A write whose value the store does not keep.
defaults_write_NotKept(st, key, bool_str) == st

\* `defaults write <domain> <key> -bool <bool_str>`: a later read prints
\* "1" for true and "0" for false.
defaults_write(st, key, bool_str) ==
    [st EXCEPT ![key] = IF bool_str = "true" THEN "1" ELSE "0"]

\* write_default that writes although check_mode is set.
write_default_IgnoresCheckMode(st, key, value_bool, cm) ==
    LET current_value == read_default(st, key)
        bool_str == IF value_bool THEN "true" ELSE "false"
    IN  IF current_value = PyBool(value_bool)
           THEN [ret |-> FALSE, cmd |-> <<>>, st |-> st]
        ELSE [ret |-> TRUE,
              cmd |-> << [key |-> key, bool_str |-> bool_str] >>,
              st  |-> defaults_write(st, key, bool_str)]

\* write_default that reports a change only when it wrote.
write_default_ChangedOnlyOnWrite(st, key, value_bool, cm) ==
    LET current_value == read_default(st, key)
        bool_str == IF value_bool THEN "true" ELSE "false"
    IN  IF current_value = PyBool(value_bool)
           THEN [ret |-> FALSE, cmd |-> <<>>, st |-> st]
        ELSE IF ~cm
           THEN [ret |-> TRUE,
                 cmd |-> << [key |-> key, bool_str |-> bool_str] >>,
                 st  |-> defaults_write(st, key, bool_str)]
        ELSE [ret |-> FALSE, cmd |-> <<>>, st |-> st]

\* write_default: `ret` is the returned flag, `cmd` the write command issued
\* (<<>> when none is), `st` the store after a successful call.
write_default(st, key, value_bool, cm) ==
    LET current_value == read_default(st, key)
        bool_str == IF value_bool THEN "true" ELSE "false"
    IN  IF current_value = PyBool(value_bool)
           THEN [ret |-> FALSE, cmd |-> <<>>, st |-> st]
        ELSE IF ~cm
           THEN [ret |-> TRUE,
                 cmd |-> << [key |-> key, bool_str |-> bool_str] >>,
                 st  |-> defaults_write(st, key, bool_str)]
        ELSE [ret |-> TRUE, cmd |-> <<>>, st |-> st]

\* The reconciler before any invocation, for the other specifications.
IdleReconcile ==
    /\ store = [k \in Keys |-> "absent"]
    /\ params = [k \in Keys |-> "None"]
    /\ check_mode = FALSE
    /\ rpc = "idle"
    /\ idx = 1
    /\ changed = FALSE
    /\ reads = <<>>
    /\ writes = <<>>
    /\ history = <<>>
    /\ store0 = store

InitReconcile ==
    /\ store \in [Keys -> StoreVals]
    /\ params \in [Keys -> {"None", "True", "False"}]
    /\ check_mode \in BOOLEAN
    /\ rpc = "loop"
    /\ idx = 1
    /\ changed = FALSE
    /\ reads = <<>>
    /\ writes = <<>>
    /\ history = <<>>
    /\ store0 = store

\* One iteration of `for domain, key, value in changes`, the write succeeds
\* (or none is issued).
ReconcileEntry ==
    /\ rpc = "loop"
    /\ idx <= Len(changes)
    /\ LET e == changes[idx]
           r == write_default(store, e.key, e.value, check_mode)
       IN  /\ reads' = Append(reads, [key |-> e.key, out |-> store[e.key],
                                      value |-> e.value])
           /\ writes' = writes \o r.cmd
           /\ store' = r.st
           /\ changed' = IF r.ret THEN TRUE ELSE changed
    /\ idx' = idx + 1
    /\ UNCHANGED <<params, check_mode, rpc, history, store0, lvars, vvars, ivars,
                   uvars>>

\* One iteration in which subprocess.check_call raises CalledProcessError:
\* main() calls fail_json and the invocation ends.
ReconcileWriteFails ==
    /\ rpc = "loop"
    /\ idx <= Len(changes)
    /\ LET e == changes[idx]
           r == write_default(store, e.key, e.value, check_mode)
       IN  /\ r.cmd # <<>>
           /\ reads' = Append(reads, [key |-> e.key, out |-> store[e.key],
                                      value |-> e.value])
           /\ writes' = writes \o r.cmd
    /\ rpc' = "failed"
    /\ history' = Append(history, [check_mode |-> check_mode, failed |-> TRUE,
                                   changed |-> changed, writes |-> writes'])
    /\ UNCHANGED <<store, params, check_mode, idx, changed, store0, lvars, vvars, ivars,
                   uvars>>

\* The loop is over: module.exit_json(changed=changed, ...).
ReconcileExit ==
    /\ rpc = "loop"
    /\ idx > Len(changes)
    /\ rpc' = "exited"
    /\ history' = Append(history, [check_mode |-> check_mode, failed |-> FALSE,
                                   changed |-> changed, writes |-> writes])
    /\ UNCHANGED <<store, params, check_mode, idx, changed, reads, writes, store0,
                   lvars, vvars, ivars, uvars>>

\* The module is invoked again with the same parameters.
ReconcileAgain ==
    /\ rpc \in {"exited", "failed"}
    /\ Len(history) < MaxRuns
    /\ check_mode' \in BOOLEAN
    /\ rpc' = "loop"
    /\ idx' = 1
    /\ changed' = FALSE
    /\ reads' = <<>>
    /\ writes' = <<>>
    /\ store0' = store
    /\ UNCHANGED <<store, params, history, lvars, vvars, ivars, uvars>>

NextReconcile ==
    \/ ReconcileEntry
    \/ ReconcileWriteFails
    \/ ReconcileExit
    \/ ReconcileAgain

(***************************************************************************)
(* softwareupdate_install.py, softwareupdate_osinstall.py                  *)
(***************************************************************************)

Never == -1

Passwords == {"pw-A", "pw-B"}
Labels == {"L1", "L2"}
username == "admin"

\* INSTALLERS of softwareupdate_osinstall.main.
INSTALLERS ==
    [v \in {13, 14, 15} |->
        CASE v = 13 -> "Install macOS Ventura.app"
          [] v = 14 -> "Install macOS Sonoma.app"
          [] v = 15 -> "Install macOS 15.app"]

Versions == {13, 14, 15, 16}

log_path(o) ==
    IF o = "install" THEN "/tmp/softwareupdate_install.log"
    ELSE "/tmp/startosinstall.log"

\* A line of `softwareupdate --list`: leading white space, a head, the white
\* space after the head, the rest of the line and trailing white space.
Line(indent, head, sep, body, trail) ==
    [indent |-> indent, head |-> head, sep |-> sep, body |-> body,
     trail |-> trail]

ListingLines ==
    { Line("", "* Label:", " ", l, "") : l \in Labels } \cup
    { Line("", "* Label:", " ", "L1", " "),
      Line(" ", "* Label:", " ", "L1", ""),
      Line("", "* Label:", "", "L1", ""),
      Line("\t", "Title:", " ", "L1", ""),
      Line("", "junk", "", "", "") }

RECURSIVE SeqsUpTo(_, _)
SeqsUpTo(S, n) ==
    IF n = 0 THEN { <<>> }
    ELSE LET shorter == SeqsUpTo(S, n - 1)
         IN  shorter \cup { Append(q, x) : q \in shorter, x \in S }

Listings == SeqsUpTo(ListingLines, MaxLines)

\* `softwareupdate --list` has not been run.
NoListing == [status |-> "unset", lines |-> <<>>]

\* re.compile(r"^\* Label:\s+(.+)$", re.MULTILINE).findall(list_output): the
\* captured group of every line that starts with "* Label:", white space and
\* at least one more character; the group runs to the end of the line.
\* (Every line of ListingLines with that head has a body, so \s+ never
\* runs over the end of a line.)
\* A findall that ignores white space around the line.
RECURSIVE labels_findall_Stripped(_)
labels_findall_Stripped(lines) ==
    IF lines = <<>> THEN <<>>
    ELSE LET l == Head(lines)
         IN  (IF l.head = "* Label:" /\ l.sep # "" /\ l.body # ""
                 THEN << <<l.body, "">> >>
                 ELSE <<>>) \o labels_findall_Stripped(Tail(lines))

RECURSIVE labels_findall(_)
labels_findall(lines) ==
    IF lines = <<>> THEN <<>>
    ELSE LET l == Head(lines)
         IN  (IF l.indent = "" /\ l.head = "* Label:" /\ l.sep # "" /\ l.body # ""
                 THEN << <<l.body, l.trail>> >>
                 ELSE <<>>) \o labels_findall(Tail(lines))

\* The Python string s as the group would hold it.
Str(s) == <<s, "">>

InSeq(x, q) == \E i \in 1..Len(q) : q[i] = x

\* softwareupdate_install.main: cmd, as the pieces str.format joins.
install_cmd(pw, lbl, user, path) ==
    << "echo '", pw, "' | nohup softwareupdate --install \"", lbl,
       "\" --agree-to-license --verbose --no-scan --restart --stdinpass --user \"",
       user, "\" > ", path, " 2>&1 &" >>

\* subprocess.check_call(cmd, shell=True) runs /bin/sh -c cmd.
install_argv(pw, lbl, user, path) ==
    << <<"/bin/sh">>, <<"-c">>, install_cmd(pw, lbl, user, path) >>

installer_path(v) ==
    << "/Applications/", INSTALLERS[v], "/Contents/Resources/startosinstall" >>

\* softwareupdate_osinstall.main: cmd, the list given to check_call.
osinstall_argv(pw, v, user, path) ==
    << <<"sh">>, <<"-c">>,
       << "echo '", pw, "' | nohup '" >> \o installer_path(v) \o
       << "' --agreetolicense --forcequitapps --nointeraction --user '", user,
          "' --stdinpass > '", path, "' 2>&1 &" >> >>

\* The log file at time t.  The child truncates it at truncAt and writes
\* its first progress line at markerAt.
LogTruncated(t) == t >= truncAt
LogExists(t) == LogTruncated(t) \/ logInit # "missing"
LogHasMarker(t) ==
    IF LogTruncated(t) THEN markerAt # Never /\ markerAt <= t
    ELSE logInit = "stale"

MarkerTimes == {Never} \cup 0..MaxMarker

\* A loop condition that still holds when the timeout has just elapsed.
loop_condition_Inclusive(t, st, to) == t - st <= to

\* `time.time() - start_time < timeout`
loop_condition(t, st, to) == t - st < to

\* A sleep that returns at once.
sleep_NoAdvance(t, iv) == t

\* time.time() after `time.sleep(interval)`
sleep(t, iv) == t + iv

Count(n) == IF n < MaxTicks THEN n + 1 ELSE n

\* The timeout and interval main() passes to check_log_for_progress.
DefaultTimeout == 30
DefaultInterval == 3

InitLaunch ==
    /\ \/ op = "install" /\ label \in Labels /\ version = 0
       \/ op = "osinstall" /\ label = "" /\ version \in Versions
    /\ password \in Passwords
    /\ list_output = NoListing
    /\ argv = <<>>
    /\ lpc = "start"
    /\ spawns = 0
    /\ ticks = 0
    /\ readErrors = 0
    /\ now = 0
    /\ start_time = 0
    /\ timeout = DefaultTimeout
    /\ interval = DefaultInterval
    /\ logInit \in {"missing", "empty", "stale"}
    /\ truncAt = 0
    /\ markerAt = Never

\* softwareupdate_install.main up to the construction of cmd:
\* `softwareupdate --list` succeeds, the label is looked up.
InstallPrepare ==
    /\ op = "install" /\ lpc = "start"
    /\ \E out \in Listings :
         /\ list_output' = [status |-> "ok", lines |-> out]
         /\ IF InSeq(Str(label), labels_findall(out))
               THEN /\ argv' = install_argv(password, label, username, log_path(op))
                    /\ lpc' = "ready"
               ELSE /\ lpc' = "notfound"
                    /\ UNCHANGED argv
    /\ UNCHANGED <<rvars, vvars, ivars, uvars, op, password, label, version, spawns,
                   ticks, readErrors, now, start_time, timeout, interval,
                   logInit, truncAt, markerAt>>

\* `softwareupdate --list` exits non-zero: fail_json.
InstallListFails ==
    /\ op = "install" /\ lpc = "start"
    /\ list_output' = [status |-> "failed", lines |-> <<>>]
    /\ lpc' = "listfailed"
    /\ UNCHANGED <<rvars, vvars, ivars, uvars, op, password, label, version, argv, spawns, ticks, readErrors, now, start_time, timeout,
                   interval, logInit, truncAt, markerAt>>

\* softwareupdate_osinstall.main up to the construction of cmd.
OsinstallPrepare ==
    /\ op = "osinstall" /\ lpc = "start"
    /\ \E isfile \in BOOLEAN :
         IF version \notin DOMAIN INSTALLERS
            THEN lpc' = "unsupported" /\ UNCHANGED argv
         ELSE IF ~isfile
            THEN lpc' = "noinstaller" /\ UNCHANGED argv
         ELSE /\ argv' = osinstall_argv(password, version, username, log_path(op))
              /\ lpc' = "ready"
    /\ UNCHANGED <<rvars, vvars, ivars, uvars, op, password, label, version, list_output,
                   spawns, ticks, readErrors, now, start_time,
                   timeout, interval, logInit, truncAt, markerAt>>

\* subprocess.check_call(cmd) returns: the shell has put the pipeline in the
\* background.  check_log_for_progress is entered and takes start_time.
Spawn ==
    /\ lpc = "ready"
    /\ spawns' = spawns + 1
    /\ truncAt' \in {0, 1}
    /\ markerAt' \in {m \in MarkerTimes : m = Never \/ m >= truncAt'}
    /\ start_time' = now
    /\ lpc' = "polling"
    /\ UNCHANGED <<rvars, vvars, ivars, uvars, op, password, label, version, list_output, argv,
                   ticks, readErrors, now, timeout, interval,
                   logInit>>

\* A failed spawn after which main() comes back to spawn again.
SpawnFails_Retries ==
    /\ lpc = "ready"
    /\ spawns' = spawns + 1
    /\ UNCHANGED <<rvars, vvars, ivars, uvars, op, password, label, version, list_output, argv,
                   lpc, ticks, readErrors, now, start_time, timeout,
                   interval, logInit, truncAt, markerAt>>

\* subprocess.check_call(cmd) raises CalledProcessError: fail_json.
SpawnFails ==
    /\ lpc = "ready"
    /\ spawns' = spawns + 1
    /\ lpc' = "launchfailed"
    /\ UNCHANGED <<rvars, vvars, ivars, uvars, op, password, label, version, list_output, argv,
                   ticks, readErrors, now, start_time, timeout,
                   interval, logInit, truncAt, markerAt>>

\* An iteration that gives up when the log is missing or the read raises.
PollTick_GivesUp ==
    /\ lpc = "polling"
    /\ loop_condition(now, start_time, timeout)
    /\ \E raises \in BOOLEAN :
         /\ raises => LogExists(now)
         /\ ticks' = Count(ticks)
         /\ readErrors' = IF raises THEN Count(readErrors) ELSE readErrors
         /\ IF LogExists(now) /\ ~raises /\ LogHasMarker(now)
               THEN lpc' = "confirmed" /\ UNCHANGED now
            ELSE IF ~LogExists(now) \/ raises
               THEN lpc' = "timedout" /\ UNCHANGED now
               ELSE now' = sleep(now, interval) /\ UNCHANGED lpc
    /\ UNCHANGED <<rvars, vvars, ivars, uvars, op, password, label, version, list_output, argv,
                   spawns, start_time, timeout, interval,
                   logInit, truncAt, markerAt>>

\* One iteration of the while loop of check_log_for_progress: the log is
\* read if it exists; with the marker in it the function returns True and
\* main() exits with changed=True, otherwise the loop sleeps.
PollTick ==
    /\ lpc = "polling"
    /\ loop_condition(now, start_time, timeout)
    /\ \E raises \in BOOLEAN :
         /\ raises => LogExists(now)
         /\ ticks' = Count(ticks)
         /\ readErrors' = IF raises THEN Count(readErrors) ELSE readErrors
         /\ IF LogExists(now) /\ ~raises /\ LogHasMarker(now)
               THEN lpc' = "confirmed" /\ UNCHANGED now
               ELSE now' = sleep(now, interval) /\ UNCHANGED lpc
    /\ UNCHANGED <<rvars, vvars, ivars, uvars, op, password, label, version, list_output, argv,
                   spawns, start_time, timeout, interval,
                   logInit, truncAt, markerAt>>

\* The loop condition fails: check_log_for_progress returns False and
\* main() calls fail_json.
PollTimeout ==
    /\ lpc = "polling"
    /\ ~loop_condition(now, start_time, timeout)
    /\ lpc' = "timedout"
    /\ UNCHANGED <<rvars, vvars, ivars, uvars, op, password, label, version, list_output, argv,
                   spawns, ticks, readErrors, now, start_time,
                   timeout, interval, logInit, truncAt, markerAt>>

NextLaunch ==
    \/ InstallPrepare
    \/ InstallListFails
    \/ OsinstallPrepare
    \/ Spawn
    \/ SpawnFails
    \/ PollTick
    \/ PollTimeout

\* The launch modules before any invocation, for the other specifications.
IdleLaunch ==
    /\ op = "none" /\ label = "" /\ version = 0 /\ password = ""
    /\ list_output = NoListing /\ argv = <<>>
    /\ lpc = "idle" /\ spawns = 0 /\ ticks = 0 /\ readErrors = 0
    /\ now = 0 /\ start_time = 0
    /\ timeout = DefaultTimeout /\ interval = DefaultInterval
    /\ logInit = "missing" /\ truncAt = 0 /\ markerAt = Never

\* check_log_for_progress called on its own, with any timeout and any
\* positive interval, on a log file that behaves in any of the ways above.
InitPoll ==
    /\ op = "poll" /\ label = "" /\ version = 0 /\ password = ""
    /\ list_output = NoListing /\ argv = <<>>
    /\ lpc = "polling" /\ spawns = 0 /\ ticks = 0 /\ readErrors = 0
    /\ now = 0 /\ start_time = 0
    /\ timeout \in -1..MaxTimeout
    /\ interval \in 1..MaxInterval
    /\ logInit \in {"missing", "empty", "stale"}
    /\ truncAt \in {0, 1}
    /\ markerAt \in {m \in MarkerTimes : m = Never \/ m >= truncAt}

NextPoll ==
    \/ PollTick
    \/ PollTimeout

(***************************************************************************)
(* softwareupdate_list_installers.py: parse_version                        *)
(***************************************************************************)

Digits == {"0", "1", "2", "3", "4", "5", "6", "7", "8", "9"}

DigitVal(c) ==
    CASE c = "0" -> 0 [] c = "1" -> 1 [] c = "2" -> 2 [] c = "3" -> 3
      [] c = "4" -> 4 [] c = "5" -> 5 [] c = "6" -> 6 [] c = "7" -> 7
      [] c = "8" -> 8 [] c = "9" -> 9

\* str.split(sep): the pieces of s between the occurrences of sep.
RECURSIVE split(_, _)
split(s, sep) ==
    IF \A i \in 1..Len(s) : s[i] # sep THEN << s >>
    ELSE LET i == CHOOSE k \in 1..Len(s) :
                      s[k] = sep /\ \A j \in 1..(k - 1) : s[j] # sep
         IN  << SubSeq(s, 1, i - 1) >> \o split(SubSeq(s, i + 1, Len(s)), sep)

\* str.isdigit()
isdigit(s) == s # <<>> /\ \A i \in 1..Len(s) : s[i] \in Digits

\* int(s) of a string of digits
RECURSIVE int(_)
int(s) ==
    IF s = <<>> THEN 0
    ELSE 10 * int(SubSeq(s, 1, Len(s) - 1)) + DigitVal(s[Len(s)])

RECURSIVE IntsOfDigitParts(_)
IntsOfDigitParts(parts) ==
    IF parts = <<>> THEN <<>>
    ELSE (IF isdigit(Head(parts)) THEN << int(Head(parts)) >> ELSE <<>>)
         \o IntsOfDigitParts(Tail(parts))

\* A parse that stops at the first component that is not a number.
RECURSIVE IntsUntilNonDigit(_)
IntsUntilNonDigit(parts) ==
    IF parts = <<>> \/ ~isdigit(Head(parts)) THEN <<>>
    ELSE << int(Head(parts)) >> \o IntsUntilNonDigit(Tail(parts))

parse_version_Truncating(version_str) ==
    IntsUntilNonDigit(split(version_str, "."))

\* tuple(int(part) for part in version_str.split('.') if part.isdigit())
parse_version(version_str) == IntsOfDigitParts(split(version_str, "."))

Min(a, b) == IF a < b THEN a ELSE b

\* A comparison that looks at the first components only.
tuple_gt_FirstOnly(a, b) ==
    IF a # <<>> /\ b # <<>> THEN a[1] > b[1] ELSE Len(a) > Len(b)

\* Python's a > b for tuples of integers: the first position at which they
\* differ decides; when there is none the longer tuple is the greater.
tuple_gt(a, b) ==
    LET diff == {i \in 1..Min(Len(a), Len(b)) : a[i] # b[i]}
    IN  IF diff # {}
           THEN LET i == CHOOSE k \in diff : \A j \in diff : k <= j
                IN  a[i] > b[i]
           ELSE Len(a) > Len(b)

\* Version strings of the listings seen in the field and in the examples.
FixtureVersions ==
    { <<"1", "4">>, <<"1", "4", ".", "0">>,
      <<"1", "5", ".", "1">>, <<"1", "5", ".", "1", ".", "1">>,
      <<"1", "5", ".", "2">>, <<"1", "5", ".", "1", ".", "9">>,
      <<"1", "4", ".", "7">>, <<"1", "4", ".", "1", ".", "2">>,
      <<"a", "b", "c">> }

VersionChars == {"0", "1", ".", "a"}

VersionStrings == FixtureVersions \cup SeqsUpTo(VersionChars, MaxVerLen)

\* The version comparison before it is applied, for the other
\* specifications.
IdleVersion ==
    /\ verA = <<>> /\ verB = <<>>
    /\ parsedA = <<>> /\ parsedB = <<>>
    /\ a_gt_b = "unset" /\ b_gt_a = "unset"
    /\ vpc = "idle"

InitVersion ==
    /\ verA \in VersionStrings
    /\ verB \in VersionStrings
    /\ parsedA = <<>> /\ parsedB = <<>>
    /\ a_gt_b = "unset" /\ b_gt_a = "unset"
    /\ vpc = "input"

\* `parse_version(a) > parse_version(b)` as in the latest-only selection,
\* both ways round.
CompareVersions ==
    /\ vpc = "input"
    /\ parsedA' = parse_version(verA)
    /\ parsedB' = parse_version(verB)
    /\ a_gt_b' = PyBool(tuple_gt(parse_version(verA), parse_version(verB)))
    /\ b_gt_a' = PyBool(tuple_gt(parse_version(verB), parse_version(verA)))
    /\ vpc' = "compared"
    /\ UNCHANGED <<rvars, lvars, ivars, uvars, verA, verB>>

NextVersion == CompareVersions

(***************************************************************************)
(* softwareupdate_list_installers.py: main                                 *)
(***************************************************************************)

\* A Python str and a Python int, told apart as Python tells them apart.
PyStr(chars) == [type |-> "str", val |-> chars]
PyInt(n) == [type |-> "int", val |-> n]

\* A line of the installer listing: the white space before it, the field
\* names in the order they stand in the line, and the text after each name
\* (after the white space that follows the name).
InstLine(lead, names, vals) == [lead |-> lead, names |-> names, vals |-> vals]

InstNames == <<"* Title:", "Version:", "Size:", "Build:", "Deferred:">>

\* str.strip() on a sequence of characters
RECURSIVE lstrip(_)
lstrip(q) == IF q # <<>> /\ Head(q) = " " THEN lstrip(Tail(q)) ELSE q

RECURSIVE rstrip(_)
rstrip(q) ==
    IF q # <<>> /\ q[Len(q)] = " " THEN rstrip(SubSeq(q, 1, Len(q) - 1)) ELSE q

strip(q) == rstrip(lstrip(q))

\* pattern.match(line) of main(): the five fields in their order, the build
\* (\S+) without white space.
installer_match(line) ==
    /\ line.names = InstNames
    /\ line.vals[4] # <<>>
    /\ \A i \in 1..Len(line.vals[4]) : line.vals[4][i] # " "

\* A match that has to take the whole of the string (re.fullmatch).
RECURSIVE regex_fullmatch(_, _)
regex_fullmatch(pat, q) ==
    IF pat = <<>> THEN q = <<>>
    ELSE IF Head(pat) = "^" THEN regex_fullmatch(Tail(pat), q)
    ELSE /\ q # <<>>
         /\ \/ Head(pat) = "."
            \/ Head(pat) = "\\." /\ Head(q) = "."
            \/ Head(pat) # "\\." /\ Head(pat) = Head(q)
         /\ regex_fullmatch(Tail(pat), Tail(q))

\* re.compile(version_pattern).match(s) for a pattern made of "^" (at its
\* start), "\\." (a dot), "." (any character) and literal characters: the
\* pattern has to match from the first character of s on.
RECURSIVE regex_match(_, _)
regex_match(pat, q) ==
    IF pat = <<>> THEN TRUE
    ELSE IF Head(pat) = "^" THEN regex_match(Tail(pat), q)
    ELSE /\ q # <<>>
         /\ \/ Head(pat) = "."
            \/ Head(pat) = "\\." /\ Head(q) = "."
            \/ Head(pat) # "\\." /\ Head(pat) = Head(q)
         /\ regex_match(Tail(pat), Tail(q))

\* `version_regex and not version_regex.match(version)`: version_regex is
\* None when no pattern, or an empty one, was given.
version_rejected(vp, v) ==
    vp.given /\ vp.pat # <<>> /\ ~regex_match(vp.pat, v)

\* The record main() appends for a matching line.
installer_record(line) ==
    [title    |-> strip(line.vals[1]),
     version  |-> strip(line.vals[2]),
     size     |-> PyStr(strip(line.vals[3])),
     build    |-> strip(line.vals[4]),
     deferred |-> strip(line.vals[5])]

\* The loop over cmd_output.splitlines().
RECURSIVE parse_installers(_, _)
parse_installers(lines, vp) ==
    IF lines = <<>> THEN <<>>
    ELSE LET line == Head(lines)
             rest == parse_installers(Tail(lines), vp)
         IN  IF line.names # <<>> /\ line.names[1] = "* Title:"
                  /\ installer_match(line)
                  /\ ~version_rejected(vp, strip(line.vals[2]))
                THEN << installer_record(line) >> \o rest
                ELSE rest

\* A sort that leaves the items in the order they came.
InsertDesc_Unordered(x, sorted) == Append(sorted, x)

\* sorted(items, key=..., reverse=True) on items that carry their key: an
\* item goes before the first one whose key is smaller, items with equal
\* keys keep their order.
RECURSIVE InsertDesc(_, _)
InsertDesc(x, sorted) ==
    IF sorted = <<>> THEN << x >>
    ELSE IF tuple_gt(x.key, Head(sorted).key) THEN << x >> \o sorted
    ELSE << Head(sorted) >> \o InsertDesc(x, Tail(sorted))

RECURSIVE SortedDesc(_)
SortedDesc(items) ==
    IF items = <<>> THEN <<>>
    ELSE InsertDesc(items[Len(items)], SortedDesc(SubSeq(items, 1, Len(items) - 1)))

Items(keyed) == [i \in 1..Len(keyed) |-> keyed[i].item]

\* installer['version'].split('.')[0]
major_ver(inst) == split(inst.version, ".")[1]

\* The dict latest_installers, as its (key, value) pairs in insertion
\* order, after the loop over ins.
RECURSIVE latest_installers(_)
latest_installers(ins) ==
    IF ins = <<>> THEN <<>>
    ELSE LET before == latest_installers(SubSeq(ins, 1, Len(ins) - 1))
             installer == ins[Len(ins)]
         IN  IF ~isdigit(major_ver(installer)) THEN before   \* ValueError
             ELSE LET major_ver_int == int(major_ver(installer))
                      at == {i \in 1..Len(before) : before[i].key = <<major_ver_int>>}
                  IN  IF at # {}
                         THEN LET i == CHOOSE k \in at : TRUE
                              IN  IF tuple_gt(parse_version(installer.version),
                                              parse_version(before[i].item.version))
                                     THEN [before EXCEPT ![i].item = installer]
                                     ELSE before
                         ELSE Append(before, [key |-> <<major_ver_int>>,
                                              item |-> installer])

\* What main() returns as `installers` for the parsed list ins.
order_installers(ins, latest) ==
    IF latest
       THEN Items(SortedDesc(latest_installers(ins)))
       ELSE Items(SortedDesc([i \in 1..Len(ins) |->
                       [key |-> parse_version(ins[i].version), item |-> ins[i]]]))

Chars14_7_2 == <<"1", "4", ".", "7", ".", "2">>

\* * Title: macOS Sonoma 14.7.2, Version: 14.7.2, Size: 123456KiB,
\*   Build: 23H311, Deferred: NO
FixtureLine ==
    InstLine("", InstNames,
             << <<"macOS Sonoma 14.7.2">>, Chars14_7_2,
                <<"1", "2", "3", "4", "5", "6", "K", "i", "B">>,
                <<"23H311">>, <<"NO">> >>)

\* A well-formed line for version v.
GoodLine(v) ==
    InstLine("", InstNames, << <<"macOS">>, v, <<"9", "K", "i", "B">>,
                               <<"23A1">>, <<"NO">> >>)

InstVersions ==
    { <<"1", "4">>, <<"1", "4", ".", "0">>, <<"1", "4", ".", "1">>,
      <<"1", "5", ".", "0">>, <<"1", "1", "4", ".", "0">>, <<"b", ".", "1">> }

InstallerLines ==
    { GoodLine(v) : v \in InstVersions } \cup
    { FixtureLine,
      \* indented, and white space around the values
      InstLine("   ", InstNames, << <<"macOS">>, <<"1", "5", ".", "1", " ">>,
                                    <<"9", "K", "i", "B">>, <<"23A1">>, <<"YES">> >>),
      \* no Build field
      InstLine("", <<"* Title:", "Version:", "Size:", "Deferred:">>,
               << <<"macOS">>, <<"1", "4", ".", "9">>, <<"9">>, <<"NO">> >>),
      \* a build with white space in it
      InstLine("", InstNames, << <<"macOS">>, <<"1", "4", ".", "9">>, <<"9">>,
                                 <<"23", " ", "A1">>, <<"NO">> >>),
      \* the heading of the listing
      InstLine("", <<>>, <<>>) }

InstOutputs == SeqsUpTo(InstallerLines, MaxInstLines)

VersionPatterns ==
    { [given |-> FALSE, pat |-> <<>>],
      [given |-> TRUE, pat |-> <<>>],
      [given |-> TRUE, pat |-> <<"^", "1", "4", "\\.">>],
      [given |-> TRUE, pat |-> <<"1", "4", ".">>] }

IdleInstallers ==
    /\ latest_only = FALSE
    /\ version_pattern = [given |-> FALSE, pat |-> <<>>]
    /\ cmd_output = <<>>
    /\ installers = <<>>
    /\ ipc = "idle"

InitInstallers ==
    /\ latest_only \in BOOLEAN
    /\ version_pattern \in VersionPatterns
    /\ cmd_output = <<>>
    /\ installers = <<>>
    /\ ipc = "start"

\* main(), not in check mode, the listing command succeeds.
ListInstallers ==
    /\ ipc = "start"
    /\ \E out \in InstOutputs :
         /\ cmd_output' = out
         /\ installers' = order_installers(parse_installers(out, version_pattern),
                                           latest_only)
    /\ ipc' = "exited"
    /\ UNCHANGED <<rvars, lvars, vvars, uvars, latest_only, version_pattern>>

\* main() in check mode: exit_json before the listing command is run.
ListInstallersCheckMode ==
    /\ ipc = "start"
    /\ ipc' = "checkmode"
    /\ UNCHANGED <<rvars, lvars, vvars, uvars, latest_only, version_pattern,
                   cmd_output, installers>>

\* The listing command exits non-zero: fail_json.
ListInstallersFails ==
    /\ ipc = "start"
    /\ ipc' = "failed"
    /\ UNCHANGED <<rvars, lvars, vvars, uvars, latest_only, version_pattern,
                   cmd_output, installers>>

NextInstallers ==
    \/ ListInstallers
    \/ ListInstallersCheckMode
    \/ ListInstallersFails

(***************************************************************************)
(* softwareupdate_list_updates.py: main                                    *)
(***************************************************************************)

PyNone == [type |-> "None", val |-> <<>>]

\* A line of `softwareupdate --list`: as InstLine, and the comma that may
\* end the line.  After "* Label:" the text is kept with its white space.
UpdLine(lead, names, vals, tail) ==
    [lead |-> lead, names |-> names, vals |-> vals, tail |-> tail]

\* label_pattern.match(line) on the stripped line: "* Label:", white space
\* and the rest.
label_match(line) ==
    /\ rstrip(line.vals[1]) # <<>>
    /\ Head(line.vals[1]) = " "

TitleNames == <<"Title:", "Version:", "Size:", "Recommended:">>

\* title_pattern.match(line): the four fields, Recommended being YES or NO,
\* then an optional Action field (\S+) and an optional comma.
title_match(line) ==
    /\ line.vals[4] \in { <<"YES">>, <<"NO">> }
    /\ \/ line.names = TitleNames
       \/ /\ line.names = TitleNames \o <<"Action:">>
          /\ line.vals[5] \o line.tail # <<>>
          /\ \A i \in 1..Len(line.vals[5]) : line.vals[5][i] # " "

\* m.group(5): \S+ is greedy and takes the comma that ends the line.
title_action(line) ==
    IF Len(line.names) = 5 THEN PyStr(line.vals[5] \o line.tail) ELSE PyNone

startswith(t, prefix) ==
    Len(t) >= Len(prefix) /\ SubSeq(t, 1, Len(prefix)) = prefix

contains(t, word) == \E i \in 1..Len(t) : t[i] = word

Products ==
    {"all", "macos", "xcode", "command_line_tools", "safari", "security",
     "firmware", "printer_drivers"}

\* A table that takes every title for a security update.
PRODUCT_PATTERNS_SecurityAll(product, t) ==
    product = "security" \/ product = "all"

\* PRODUCT_PATTERNS[product](t), titles being sequences of words.
PRODUCT_PATTERNS(product, t) ==
    CASE product = "all" -> TRUE
      [] product = "macos" -> startswith(t, <<"macOS">>)
      [] product = "xcode" ->
            startswith(t, <<"Xcode", " ">>) \/ startswith(t, <<"Xcode", "-">>)
      [] product = "command_line_tools" -> startswith(t, <<"Command Line Tools">>)
      [] product = "safari" -> startswith(t, <<"Safari">>)
      [] product = "security" -> startswith(t, <<"Security Update">>)
      [] product = "firmware" -> contains(t, "Firmware Update")
      [] product = "printer_drivers" -> contains(t, "Printer Drivers")

update_record(line, current_label) ==
    [label       |-> current_label,
     title       |-> strip(line.vals[1]),
     version     |-> strip(line.vals[2]),
     size        |-> PyStr(strip(line.vals[3])),
     recommended |-> line.vals[4],
     action      |-> title_action(line)]

\* A loop that keeps the label after a record has been appended.
RECURSIVE parse_updates_KeepsLabel(_, _, _, _)
parse_updates_KeepsLabel(lines, current_label, product, vp) ==
    IF lines = <<>> THEN <<>>
    ELSE LET line == Head(lines)
             rest == Tail(lines)
         IN  IF line.names # <<>> /\ line.names[1] = "* Label:"
                THEN parse_updates_KeepsLabel(rest,
                        IF label_match(line) THEN strip(line.vals[1])
                                             ELSE current_label,
                        product, vp)
             ELSE IF line.names # <<>> /\ line.names[1] = "Title:"
                     /\ current_label # <<>> /\ title_match(line)
                THEN IF ~PRODUCT_PATTERNS(product, strip(line.vals[1]))
                        THEN parse_updates_KeepsLabel(rest, <<>>, product, vp)
                     ELSE IF version_rejected(vp, strip(line.vals[2]))
                        THEN parse_updates_KeepsLabel(rest, <<>>, product, vp)
                     ELSE << update_record(line, current_label) >>
                          \o parse_updates_KeepsLabel(rest, current_label, product, vp)
             ELSE parse_updates_KeepsLabel(rest, current_label, product, vp)

\* The loop over lines, from the line at hand on; current_label is <<>>
\* for None.
RECURSIVE parse_updates(_, _, _, _)
parse_updates(lines, current_label, product, vp) ==
    IF lines = <<>> THEN <<>>
    ELSE LET line == Head(lines)
             rest == Tail(lines)
         IN  IF line.names # <<>> /\ line.names[1] = "* Label:"
                THEN parse_updates(rest,
                        IF label_match(line) THEN strip(line.vals[1])
                                             ELSE current_label,
                        product, vp)
             ELSE IF line.names # <<>> /\ line.names[1] = "Title:"
                     /\ current_label # <<>> /\ title_match(line)
                THEN IF ~PRODUCT_PATTERNS(product, strip(line.vals[1]))
                        THEN parse_updates(rest, <<>>, product, vp)
                     ELSE IF version_rejected(vp, strip(line.vals[2]))
                        THEN parse_updates(rest, <<>>, product, vp)
                     ELSE << update_record(line, current_label) >>
                          \o parse_updates(rest, <<>>, product, vp)
             ELSE parse_updates(rest, current_label, product, vp)

LabelL(l) == UpdLine("", <<"* Label:">>, << <<" ", l>> >>, "")

TitleL(title, v, rec, tail) ==
    UpdLine("\t", TitleNames \o <<"Action:">>,
            << title, v, <<"5", "K", "i", "B">>, rec, <<"restart">> >>, tail)

TitleSecurity == <<"Security Update", " ", "2024-001">>
TitleSafari == <<"Safari", " ", "17.2">>
TitleMacOS == <<"macOS", " ", "Sequoia">>

UpdateLines ==
    { LabelL("L1"), LabelL("L2"),
      \* "* Label:L3": no white space after the colon
      UpdLine("", <<"* Label:">>, << <<"L3">> >>, ""),
      TitleL(TitleSecurity, Chars14_7_2, <<"YES">>, ","),
      TitleL(TitleSafari, <<"1", "7", ".", "2">>, <<"YES">>, ""),
      TitleL(TitleMacOS, <<"1", "1", "4", ".", "0">>, <<"NO">>, ","),
      \* a Title line the pattern does not match
      TitleL(TitleMacOS, <<"1", "5", ".", "1">>, <<"MAYBE">>, ","),
      \* the heading of the listing
      UpdLine("", <<>>, <<>>, "") }

UpdOutputs == SeqsUpTo(UpdateLines, MaxUpdLines)

UpdPatterns ==
    { [given |-> FALSE, pat |-> <<>>],
      [given |-> TRUE, pat |-> <<"^", "1", "4", "\\.">>] }

IdleUpdates ==
    /\ product_filter = "all"
    /\ updates = <<>>
    /\ upc = "idle"

InitUpdates ==
    /\ product_filter \in Products
    /\ version_pattern \in UpdPatterns
    /\ cmd_output = <<>>
    /\ updates = <<>>
    /\ upc = "start"
    /\ latest_only = FALSE
    /\ installers = <<>>
    /\ ipc = "idle"

\* main(), not in check mode, the listing command succeeds.
ListUpdates ==
    /\ upc = "start"
    /\ \E out \in UpdOutputs :
         /\ cmd_output' = out
         /\ updates' = parse_updates(out, <<>>, product_filter, version_pattern)
    /\ upc' = "exited"
    /\ UNCHANGED <<rvars, lvars, vvars, latest_only, version_pattern,
                   installers, ipc, product_filter>>

\* main() in check mode: exit_json with updates=[].
ListUpdatesCheckMode ==
    /\ upc = "start"
    /\ upc' = "checkmode"
    /\ UNCHANGED <<rvars, lvars, vvars, ivars, product_filter, updates>>

\* The listing command exits non-zero: fail_json.
ListUpdatesFails ==
    /\ upc = "start"
    /\ upc' = "failed"
    /\ UNCHANGED <<rvars, lvars, vvars, ivars, product_filter, updates>>

NextUpdates ==
    \/ ListUpdates
    \/ ListUpdatesCheckMode
    \/ ListUpdatesFails

(***************************************************************************)
(* Specifications: one per module, the others not invoked                  *)
(***************************************************************************)

Init ==
    InitReconcile /\ IdleLaunch /\ IdleVersion /\ IdleInstallers /\ IdleUpdates

Next == NextReconcile

Spec == Init /\ [][Next]_vars

LaunchInit ==
    InitLaunch /\ IdleReconcile /\ IdleVersion /\ IdleInstallers /\ IdleUpdates

SpecLaunch == LaunchInit /\ [][NextLaunch]_vars

\* The scheduler runs main() of the launch modules to its end.
FairLaunch == SpecLaunch /\ WF_vars(NextLaunch)

PollInit ==
    InitPoll /\ IdleReconcile /\ IdleVersion /\ IdleInstallers /\ IdleUpdates

SpecPoll == PollInit /\ [][NextPoll]_vars

\* The scheduler runs the single thread of check_log_for_progress: a step
\* of the loop that can be taken is taken.
FairPoll == SpecPoll /\ WF_vars(NextPoll)

VersionInit ==
    InitVersion /\ IdleReconcile /\ IdleLaunch /\ IdleInstallers /\ IdleUpdates

SpecVersion == VersionInit /\ [][NextVersion]_vars

InstallersInit ==
    InitInstallers /\ IdleReconcile /\ IdleLaunch /\ IdleVersion /\ IdleUpdates

SpecInstallers == InstallersInit /\ [][NextInstallers]_vars

UpdatesInit == InitUpdates /\ IdleReconcile /\ IdleLaunch /\ IdleVersion

SpecUpdates == UpdatesInit /\ [][NextUpdates]_vars

\* Either listing module is invoked.
ListingsInit ==
    /\ IdleReconcile /\ IdleLaunch /\ IdleVersion
    /\ (InitInstallers /\ IdleUpdates) \/ InitUpdates

NextListings ==
    \/ ListInstallers
    \/ ListInstallersCheckMode
    \/ ListInstallersFails
    \/ ListUpdates
    \/ ListUpdatesCheckMode
    \/ ListUpdatesFails

SpecListings == ListingsInit /\ [][NextListings]_vars

(***************************************************************************)
(* Claims about the launch and its confirmation                            *)
(***************************************************************************)

\* C4: The password is in no argument of the argument vector the install
\* process is spawned with, in the update install and in the OS install.
C4_SecretNotInCommand ==
    spawns > 0 => \A i \in 1..Len(argv) : ~InSeq(password, argv[i])

\* The log never holds the marker while it is polled.
LogNeverHasMarker == markerAt = Never /\ ~(logInit = "stale" /\ truncAt > 0)

\* C5: With interval 1 and timeout 5, polling a readable log that gains the
\* marker at time 2 ends Confirmed, by time 2; polling a log that never
\* holds the marker ends TimedOut only, and when it does exactly 5 time
\* units have elapsed, the loop never running past them.
C5_ConfirmTiming ==
    (interval = 1 /\ timeout = 5) =>
        /\ (markerAt = 2 /\ readErrors = 0) =>
              /\ lpc \in {"polling", "confirmed"}
              /\ now - start_time <= 2
        /\ LogNeverHasMarker =>
              /\ lpc \in {"polling", "timedout"}
              /\ lpc = "timedout" => now - start_time = timeout
              /\ now - start_time <= timeout

\* Five ticks saw no marker and the loop returned False at time 5.
C5_Witness ==
    /\ interval = 1 /\ timeout = 5
    /\ LogNeverHasMarker
    /\ lpc = "timedout"
    /\ ticks = 5
    /\ now - start_time = 5

\* C6: check_log_for_progress returns, for every timeout and every positive
\* interval and whatever the log does; it returns True only at a tick at
\* which the log exists and holds the marker.
C6_PollTerminates ==
    /\ <>(lpc \in {"confirmed", "timedout"})
    /\ [](lpc = "confirmed" => (LogExists(now) /\ LogHasMarker(now)))

\* The log could not be read at any of several ticks and the loop returned
\* False.
C6_Witness ==
    /\ lpc = "timedout"
    /\ ticks >= 2
    /\ readErrors = ticks

\* The line `* Label: <label>` with nothing before or after it.
LabelLine(l) == Line("", "* Label:", " ", l, "")

\* C7: In softwareupdate_install the install process is spawned only when
\* `softwareupdate --list` has succeeded and its output holds the line of
\* the requested label; when the line is absent or the listing fails the
\* module fails without a spawn and without a poll tick.
C7_SpawnOnlyIfListed ==
    op = "install" =>
        /\ (spawns > 0 \/ lpc = "ready") =>
              /\ list_output.status = "ok"
              /\ InSeq(LabelLine(label), list_output.lines)
        /\ (list_output.status = "ok"
              /\ ~InSeq(LabelLine(label), list_output.lines)) => lpc = "notfound"
        /\ list_output.status = "failed" => lpc = "listfailed"
        /\ lpc \in {"notfound", "listfailed"} =>
              (spawns = 0 /\ ticks = 0 /\ argv = <<>>)

\* The install was spawned for a label that is on the second line of the
\* listing and was confirmed.
C7_Witness ==
    /\ op = "install"
    /\ spawns = 1
    /\ lpc = "confirmed"
    /\ Len(list_output.lines) = 2
    /\ list_output.lines[2] = LabelLine(label)
    /\ list_output.lines[1] # LabelLine(label)

(***************************************************************************)
(* Claims about the version ordering                                       *)
(***************************************************************************)

RECURSIVE StripTrailingZeros(_)
StripTrailingZeros(t) ==
    IF t # <<>> /\ t[Len(t)] = 0
       THEN StripTrailingZeros(SubSeq(t, 1, Len(t) - 1))
       ELSE t

\* C8: Two versions whose parsed sequences differ only by trailing zeros
\* compare as equal: neither is greater than the other.
C8_TrailingZerosEqual ==
    (vpc = "compared"
       /\ StripTrailingZeros(parsedA) = StripTrailingZeros(parsedB)) =>
        (a_gt_b = "False" /\ b_gt_a = "False")

\* The part of s between two dots (or the ends) that runs from i to j.
IsPart(s, i, j) ==
    /\ 1 <= i /\ i <= j /\ j <= Len(s)
    /\ \A p \in i..j : s[p] # "."
    /\ (i = 1 \/ s[i - 1] = ".")
    /\ (j = Len(s) \/ s[j + 1] = ".")

\* The parts of s that are all digits, as pairs <<first, last>>.
DigitParts(s) ==
    { ij \in (1..Len(s)) \X (1..Len(s)) :
         IsPart(s, ij[1], ij[2]) /\ \A p \in ij[1]..ij[2] : s[p] \in Digits }

RECURSIVE Pow10(_)
Pow10(n) == IF n = 0 THEN 1 ELSE 10 * Pow10(n - 1)

RECURSIVE PartValue(_, _, _)
PartValue(s, i, j) ==
    IF i > j THEN 0
    ELSE DigitVal(s[i]) * Pow10(j - i) + PartValue(s, i + 1, j)

\* t holds the values of the all-digit parts of s, in their order.
KeepsDigitParts(s, t) ==
    /\ Len(t) = Cardinality(DigitParts(s))
    /\ \A ij \in DigitParts(s) :
          t[Cardinality({kl \in DigitParts(s) : kl[1] <= ij[1]})]
              = PartValue(s, ij[1], ij[2])

\* verA is the string x, verB the string y, and x is ordered below y.
OrderedBelow(x, y) ==
    (verA = x /\ verB = y) => (b_gt_a = "True" /\ a_gt_b = "False")

\* C9: The comparison is lexicographic over the parsed sequences: where the
\* two sequences have a first differing position, the order of the elements
\* there is the order of the versions; 15.1 < 15.1.1 < 15.2, 15.1.9 < 15.2
\* and 14.1.2 < 14.7.  Parsing keeps the dot-separated parts that are all
\* digits, each as its number, and drops the others; "abc" parses to the
\* empty sequence.
C9_Lexicographic ==
    vpc = "compared" =>
        /\ LET diff == {i \in 1..Min(Len(parsedA), Len(parsedB)) :
                            parsedA[i] # parsedB[i]}
           IN  diff # {} =>
                 LET i == CHOOSE k \in diff : \A j \in diff : k <= j
                 IN  /\ (b_gt_a = "True") <=> (parsedA[i] < parsedB[i])
                     /\ (a_gt_b = "True") <=> (parsedA[i] > parsedB[i])
        /\ OrderedBelow(<<"1", "5", ".", "1">>, <<"1", "5", ".", "1", ".", "1">>)
        /\ OrderedBelow(<<"1", "5", ".", "1", ".", "1">>, <<"1", "5", ".", "2">>)
        /\ OrderedBelow(<<"1", "5", ".", "1", ".", "9">>, <<"1", "5", ".", "2">>)
        /\ OrderedBelow(<<"1", "4", ".", "1", ".", "2">>, <<"1", "4", ".", "7">>)
        /\ KeepsDigitParts(verA, parsedA)
        /\ KeepsDigitParts(verB, parsedB)
        /\ verA = <<"a", "b", "c">> => parsedA = <<>>

\* 14.7 has been compared with 14.1.2 and found greater.
C9_Witness ==
    /\ vpc = "compared"
    /\ verA = <<"1", "4", ".", "7">>
    /\ verB = <<"1", "4", ".", "1", ".", "2">>
    /\ parsedA = <<14, 7>>
    /\ parsedB = <<14, 1, 2>>
    /\ a_gt_b = "True"

(***************************************************************************)
(* Claims about the installer listing                                      *)
(***************************************************************************)

\* C10: The fixture line yields exactly one record, whose version is the
\* string "14.7.2" and whose size is the integer 123456.
C10_FixtureRecord ==
    (ipc = "exited" /\ cmd_output = << FixtureLine >>
       /\ ~version_rejected(version_pattern, Chars14_7_2)) =>
        /\ Len(installers) = 1
        /\ installers[1].version = Chars14_7_2
        /\ installers[1].size.type = "int"
        /\ installers[1].size.val = 123456

\* The version ordering with absent trailing components counted as zero.
PaddedGt(a, b) == tuple_gt(StripTrailingZeros(a), StripTrailingZeros(b))

\* The records main() parsed and kept, before the reduction or the sort.
ParsedRecords == parse_installers(cmd_output, version_pattern)

HasIntMajor(r) == isdigit(major_ver(r))

MajorOf(r) == int(major_ver(r))

\* recs[k] is the first record of its major version that no record of
\* that major version exceeds.
FirstGreatest(recs, k) ==
    LET group == {j \in 1..Len(recs) :
                     HasIntMajor(recs[j]) /\ MajorOf(recs[j]) = MajorOf(recs[k])}
    IN  /\ HasIntMajor(recs[k])
        /\ \A j \in group :
              ~PaddedGt(parse_version(recs[j].version),
                        parse_version(recs[k].version))
        /\ \A j \in group :
              j < k => PaddedGt(parse_version(recs[k].version),
                                parse_version(recs[j].version))

\* C11: Latest-only reduction.  The result holds exactly one record per
\* integer major version present, that record is the first-seen record of
\* the greatest version of its group under the version ordering, and the
\* majors of the result descend strictly.
C11_LatestPerMajor ==
    (ipc = "exited" /\ latest_only) =>
        /\ Len(installers) =
              Cardinality({MajorOf(ParsedRecords[j]) :
                             j \in {i \in 1..Len(ParsedRecords) :
                                       HasIntMajor(ParsedRecords[i])}})
        /\ \A i \in 1..Len(installers) :
              \E k \in 1..Len(ParsedRecords) :
                 /\ installers[i] = ParsedRecords[k]
                 /\ FirstGreatest(ParsedRecords, k)
        /\ \A i \in 1..(Len(installers) - 1) :
              MajorOf(installers[i]) > MajorOf(installers[i + 1])

\* The pattern, without its anchor, matches the whole of q.
WholeMatch(pat, q) ==
    LET body == IF pat # <<>> /\ Head(pat) = "^" THEN Tail(pat) ELSE pat
    IN  /\ Len(body) = Len(q)
        /\ \A i \in 1..Len(q) :
              \/ body[i] = "."
              \/ body[i] = "\\." /\ q[i] = "."
              \/ body[i] # "\\." /\ body[i] = q[i]

\* No pattern is given, or the pattern matches a prefix of the version v.
PassesFilter(v) ==
    \/ ~version_pattern.given
    \/ version_pattern.pat = <<>>
    \/ \E k \in 0..Len(v) : WholeMatch(version_pattern.pat, SubSeq(v, 1, k))

NoPattern == [given |-> FALSE, pat |-> <<>>]

\* The records q holds whose version passes the filter, in their order.
RECURSIVE PassingRecords(_)
PassingRecords(q) ==
    IF q = <<>> THEN <<>>
    ELSE (IF PassesFilter(Head(q).version) THEN << Head(q) >> ELSE <<>>)
         \o PassingRecords(Tail(q))

Versions15_1 == <<"1", "5", ".", "1">>
Versions114_0 == <<"1", "1", "4", ".", "0">>

\* C12: In both listing modules the records returned are those of the
\* records parsed without a pattern whose version has a prefix the pattern
\* matches; without a pattern all are returned.  The pattern ^14\. keeps
\* 14.7.2 and rejects 15.1 and 114.0.
C12_PrefixFilter ==
    /\ (ipc = "exited" /\ ~latest_only) =>
          /\ installers =
                order_installers(
                    PassingRecords(parse_installers(cmd_output, NoPattern)), FALSE)
          /\ version_pattern.pat = <<"^", "1", "4", "\\.">> =>
                /\ \A i \in 1..Len(installers) :
                      installers[i].version \notin {Versions15_1, Versions114_0}
                /\ InSeq(FixtureLine, cmd_output) =>
                      \E i \in 1..Len(installers) :
                          installers[i].version = Chars14_7_2
    /\ upc = "exited" =>
          /\ updates =
                PassingRecords(parse_updates(cmd_output, <<>>, product_filter,
                                             NoPattern))
          /\ version_pattern.pat = <<"^", "1", "4", "\\.">> =>
                \A i \in 1..Len(updates) : updates[i].version = Chars14_7_2

\* With ^14\. the listing of 14.7.2 and 114.0 gave the record of 14.7.2.
C12_Witness ==
    /\ ipc = "exited"
    /\ ~latest_only
    /\ version_pattern.pat = <<"^", "1", "4", "\\.">>
    /\ cmd_output = << FixtureLine, GoodLine(Versions114_0) >>
    /\ Len(installers) = 1
    /\ installers[1].version = Chars14_7_2

\* The title t belongs to the product category.
InCategory(product, t) ==
    \/ product = "all"
    \/ product = "macos" /\ t # <<>> /\ t[1] = "macOS"
    \/ product = "xcode" /\ Len(t) >= 2 /\ t[1] = "Xcode" /\ t[2] \in {" ", "-"}
    \/ product = "command_line_tools" /\ t # <<>> /\ t[1] = "Command Line Tools"
    \/ product = "safari" /\ t # <<>> /\ t[1] = "Safari"
    \/ product = "security" /\ t # <<>> /\ t[1] = "Security Update"
    \/ product = "firmware" /\ \E i \in DOMAIN t : t[i] = "Firmware Update"
    \/ product = "printer_drivers" /\ \E i \in DOMAIN t : t[i] = "Printer Drivers"

RECURSIVE RecordsInCategory(_, _)
RecordsInCategory(product, q) ==
    IF q = <<>> THEN <<>>
    ELSE (IF InCategory(product, Head(q).title) THEN << Head(q) >> ELSE <<>>)
         \o RecordsInCategory(product, Tail(q))

\* "* Label: L1", the security update, "* Label: L2", the Safari update.
SecuritySafariListing ==
    << LabelL("L1"), TitleL(TitleSecurity, Chars14_7_2, <<"YES">>, ","),
       LabelL("L2"), TitleL(TitleSafari, <<"1", "7", ".", "2">>, <<"YES">>, "") >>

\* C13: With a product filter the updates returned are those of the
\* labelled, well-formed records (the ones the filter "all" returns) whose
\* title is in the category, and no others.  On the listing of a security
\* update and a Safari update "security" returns the first only and "all"
\* returns both.
C13_ProductFilter ==
    upc = "exited" =>
        /\ updates =
              RecordsInCategory(product_filter,
                  parse_updates(cmd_output, <<>>, "all", version_pattern))
        /\ (cmd_output = SecuritySafariListing /\ ~version_pattern.given) =>
              /\ product_filter = "security" =>
                    /\ Len(updates) = 1
                    /\ updates[1].title = TitleSecurity
                    /\ updates[1].label = <<"L1">>
              /\ product_filter = "all" =>
                    /\ Len(updates) = 2
                    /\ updates[1].title = TitleSecurity
                    /\ updates[2].title = TitleSafari
                    /\ updates[2].label = <<"L2">>

\* The filter "security" returned the security update of the listing of
\* two.
C13_Witness ==
    /\ upc = "exited"
    /\ product_filter = "security"
    /\ cmd_output = SecuritySafariListing
    /\ ~version_pattern.given
    /\ Len(updates) = 1
    /\ updates[1].title = TitleSecurity

\* The outcomes of a launch.
Outcomes == {"confirmed", "timedout", "launchfailed"}

\* C15: Launch state machine.  An invocation spawns the external process
\* at most once; a failed spawn gives LaunchFailed with no poll tick made;
\* poll ticks are made only after a spawn that succeeded; and from an
\* outcome (Confirmed, TimedOut, LaunchFailed) no step spawns or polls
\* again or leaves the outcome.
C15_LaunchMachine ==
    /\ [](/\ spawns <= 1
          /\ lpc = "launchfailed" => (spawns = 1 /\ ticks = 0 /\ readErrors = 0)
          /\ lpc \in {"polling", "confirmed", "timedout"} => spawns = 1
          /\ ticks > 0 => (spawns = 1 /\ lpc \in {"polling", "confirmed", "timedout"})
          /\ spawns = 0 => lpc \notin Outcomes)
    /\ [][/\ lpc \in Outcomes => UNCHANGED <<lpc, spawns, ticks, now>>
          /\ ticks' # ticks => (lpc = "polling" /\ spawns = 1 /\ spawns' = spawns)
          /\ spawns' # spawns =>
                (lpc = "ready" /\ spawns = 0 /\ ticks' = 0
                 /\ lpc' \in {"polling", "launchfailed"})]_vars

\* A spawn that failed: LaunchFailed, nothing polled.
C15_Witness ==
    /\ lpc = "launchfailed"
    /\ spawns = 1
    /\ ticks = 0
    /\ argv # <<>>

\* C16: A missing log file or a read error at a poll tick does not end the
\* loop and is no failure: the loop sleeps for the interval and stays in
\* polling; a tick made before the timeout that reads the log with the
\* marker in it gives Confirmed, whatever happened at the ticks before;
\* and TimedOut comes only from the timeout having elapsed.
C16_ErrorsRetried ==
    [][/\ (lpc = "polling" /\ now - start_time < timeout) =>
             IF LogExists(now) /\ readErrors' = readErrors /\ LogHasMarker(now)
                THEN lpc' = "confirmed"
                ELSE lpc' = "polling" /\ now' = now + interval
       /\ (lpc = "polling" /\ lpc' = "timedout") => now - start_time >= timeout]_vars

\* The log was missing at the first tick, the read raised at the second and
\* the third tick found the marker.
C16_Witness ==
    /\ lpc = "confirmed"
    /\ logInit = "missing"
    /\ truncAt = 1
    /\ readErrors = 1
    /\ ticks = 3

\* Line p is a label line the label pattern parses.
ParsedLabelAt(lines, p) ==
    /\ lines[p].names # <<>>
    /\ lines[p].names[1] = "* Label:"
    /\ label_match(lines[p])

\* Line q is a detail line the detail pattern matches.
MatchedDetailAt(lines, q) ==
    /\ lines[q].names # <<>>
    /\ lines[q].names[1] = "Title:"
    /\ title_match(lines[q])

\* The position of the label pending after the first n lines: the last
\* parsed label line with no matched detail line after it; 0 when there
\* is none.
PendingAt(lines, n) ==
    LET P == {p \in 1..n : ParsedLabelAt(lines, p)}
    IN  IF P = {} THEN 0
        ELSE LET last == CHOOSE p \in P : \A o \in P : o <= p
             IN  IF \E q \in (last + 1)..n : MatchedDetailAt(lines, q)
                    THEN 0 ELSE last

\* The positions of the detail lines that yield a record.
YieldsRecord(lines, q) ==
    /\ MatchedDetailAt(lines, q)
    /\ PendingAt(lines, q - 1) # 0
    /\ InCategory(product_filter, strip(lines[q].vals[1]))
    /\ PassesFilter(strip(lines[q].vals[2]))

RECURSIVE RecordsUpTo(_, _)
RecordsUpTo(lines, n) ==
    IF n = 0 THEN <<>>
    ELSE RecordsUpTo(lines, n - 1)
         \o (IF YieldsRecord(lines, n)
                THEN << update_record(lines[n],
                            strip(lines[PendingAt(lines, n - 1)].vals[1])) >>
                ELSE <<>>)

\* "* Label: L1", the Safari update, the security update.
SafariThenSecurity ==
    << LabelL("L1"), TitleL(TitleSafari, <<"1", "7", ".", "2">>, <<"YES">>, ""),
       TitleL(TitleSecurity, Chars14_7_2, <<"YES">>, ",") >>

\* C17: A detail line yields a record only when a label line has been
\* parsed since the last detail line that matched the detail pattern, and
\* the record carries that label; a matched detail line consumes the
\* pending label whether its record is kept or filtered out.  So there are
\* no more records than parsed label lines, and with the filter "security"
\* the label before a Safari update does not pass to the security update
\* that follows it.
C17_LabelConsumed ==
    upc = "exited" =>
        /\ updates = RecordsUpTo(cmd_output, Len(cmd_output))
        /\ Len(updates) <=
              Cardinality({p \in 1..Len(cmd_output) : ParsedLabelAt(cmd_output, p)})
        /\ \A i \in 1..Len(updates) : updates[i].label # <<>>
        /\ (Len(cmd_output) >= 3 /\ SubSeq(cmd_output, 1, 3) = SafariThenSecurity
            /\ product_filter = "security"
            /\ \A p \in 4..Len(cmd_output) : ~ParsedLabelAt(cmd_output, p)) =>
              updates = <<>>

\* The Safari update was filtered out and took the label with it: the
\* security update after it gave no record.
C17_Witness ==
    /\ upc = "exited"
    /\ product_filter = "security"
    /\ ~version_pattern.given
    /\ cmd_output = SafariThenSecurity
    /\ updates = <<>>

\* How many times r occurs in q.
Occurrences(r, q) == Cardinality({i \in 1..Len(q) : q[i] = r})

\* C18: Without the latest-only reduction the installers returned are a
\* permutation of the parsed and filtered records (none dropped, none
\* duplicated) in non-increasing order of parsed version: of two adjacent
\* records the later one's version is not greater than the earlier one's,
\* in the order of the comparison and in the version ordering.
C18_SortedPermutation ==
    (ipc = "exited" /\ ~latest_only) =>
        /\ Len(installers) = Len(ParsedRecords)
        /\ \A i \in 1..Len(ParsedRecords) :
              Occurrences(ParsedRecords[i], installers)
                 = Occurrences(ParsedRecords[i], ParsedRecords)
        /\ \A i \in 1..(Len(installers) - 1) :
              /\ ~tuple_gt(parse_version(installers[i + 1].version),
                           parse_version(installers[i].version))
              /\ ~PaddedGt(parse_version(installers[i + 1].version),
                           parse_version(installers[i].version))

\* Two records came in ascending order of version and were returned in
\* descending order.
C18_Witness ==
    /\ ipc = "exited"
    /\ ~latest_only
    /\ Len(installers) = 2
    /\ installers # ParsedRecords
    /\ tuple_gt(parse_version(installers[1].version),
                parse_version(installers[2].version))

\* C20: Confirmed is returned only when the process this invocation
\* spawned has written the marker: by then the child has truncated the log
\* and has written the marker into it.  Marker text an earlier run left in
\* the log does not give Confirmed.
C20_ConfirmedByOwnMarker ==
    lpc = "confirmed" =>
        /\ spawns = 1
        /\ truncAt <= now
        /\ markerAt # Never
        /\ markerAt <= now

\* C21: For every positive interval and timeout, when the log is
\* append-only and readable and holds the marker at some moment strictly
\* before the timeout has elapsed since polling began, the outcome is
\* Confirmed: TimedOut is returned only when the log held no marker
\* throughout the timeout window, the span between the last poll tick and
\* the timeout included.
C21_MarkerInWindowConfirms ==
    (lpc = "timedout" /\ truncAt = 0 /\ readErrors = 0 /\ timeout > 0) =>
        (markerAt = Never \/ markerAt - start_time >= timeout)

(***************************************************************************)
(* Claims about the reconciler                                             *)
(***************************************************************************)

\* A finished invocation that was a real run and did not fail.
RealRunOk(h) == ~h.check_mode /\ ~h.failed

\* C1: Reconciler idempotence.  When a non-dry-run invocation has completed
\* without a write failure, the next invocation with the same desired
\* entries issues no write and reports changed = false, while it runs and
\* when it has finished.
C1_Idempotent ==
    /\ \A i \in 1..(Len(history) - 1) :
          RealRunOk(history[i]) =>
              /\ ~history[i + 1].changed
              /\ history[i + 1].writes = <<>>
              /\ ~history[i + 1].failed
    /\ (rpc = "loop" /\ Len(history) >= 1 /\ RealRunOk(history[Len(history)])) =>
          (~changed /\ writes = <<>>)

\* A real run changed something and the invocation after it has finished.
C1_Witness ==
    /\ Len(history) = 2
    /\ RealRunOk(history[1])
    /\ history[1].changed
    /\ Len(history[1].writes) = NumKeys
    /\ rpc = "exited"
    /\ idx > NumKeys

\* C2: Dry-run guarantee.  In check mode no `defaults write` is issued and
\* the store stays as it was when the invocation began.
C2_DryRunNoWrite ==
    /\ check_mode => (writes = <<>> /\ store = store0)
    /\ \A i \in 1..Len(history) :
          history[i].check_mode => history[i].writes = <<>>

\* A dry run that found drift on every key and has finished.
C2_Witness ==
    /\ check_mode
    /\ rpc = "exited"
    /\ changed
    /\ Len(reads) = NumKeys
    /\ \A i \in 1..Len(reads) : reads[i].out # (IF reads[i].value THEN "1" ELSE "0")

\* The output of `defaults read` stands for another value than the desired.
Differed(r) == ~((r.out = "1" /\ r.value) \/ (r.out = "0" /\ ~r.value))

\* C3: When an invocation finishes without a write failure, every supplied
\* entry has been read once, in order, and changed is true exactly when
\* the value read for at least one of them differed from the desired one;
\* in check mode as well as in a real run.
C3_ChangedIffDiffered ==
    rpc = "exited" =>
        /\ Len(reads) = Len(changes)
        /\ \A i \in 1..Len(reads) :
              reads[i].key = changes[i].key /\ reads[i].value = changes[i].value
        /\ changed <=> (\E i \in 1..Len(reads) : Differed(reads[i]))

\* A dry run that reports changed although one entry was already as desired.
C3_Witness ==
    /\ rpc = "exited"
    /\ check_mode
    /\ changed
    /\ \E i \in 1..Len(reads) : ~Differed(reads[i])
    /\ \E i \in 1..Len(reads) : Differed(reads[i])

\* The output `defaults read` gives for the desired value.
OutOf(value) == IF value THEN "1" ELSE "0"

\* The supplied entries, in the order supplied: the managed keys whose
\* parameter is not None.
Supplied(i) == params[AllKeys[i]] # "None"

\* How many supplied keys come before position i of the managed keys.
RECURSIVE SuppliedBefore(_)
SuppliedBefore(i) ==
    IF i <= 1 THEN 0
    ELSE SuppliedBefore(i - 1) + (IF Supplied(i - 1) THEN 1 ELSE 0)

\* The write commands a real run issues for the entries read so far.
RECURSIVE WritesFor(_)
WritesFor(rs) ==
    IF rs = <<>> THEN <<>>
    ELSE WritesFor(SubSeq(rs, 1, Len(rs) - 1))
         \o (IF Differed(rs[Len(rs)])
                THEN << [key |-> rs[Len(rs)].key,
                         bool_str |-> IF rs[Len(rs)].value THEN "true" ELSE "false"] >>
                ELSE <<>>)

\* C14: Reconciler partial failure.  The entries are read one at a time in
\* the order supplied and a write is issued for each that differed before
\* the next is read.  When the write of entry i has failed the invocation
\* has ended with an error: entry i is the last one read and its write the
\* last one issued, every entry before i that differed holds its newly
\* written value, and every supplied entry after i has been neither read
\* nor written and holds the value it had when the invocation began.
C14_PartialFailure ==
    /\ rpc \in {"loop", "failed", "exited"} =>
          /\ \A j \in 1..Len(reads) :
                \E k \in 1..NumKeys :
                    /\ Supplied(k)
                    /\ SuppliedBefore(k) = j - 1
                    /\ reads[j].key = AllKeys[k]
                    /\ reads[j].value = (params[AllKeys[k]] = "True")
          /\ ~check_mode => writes = WritesFor(reads)
    /\ rpc = "failed" =>
          /\ Len(reads) = idx
          /\ history[Len(history)].failed
          /\ writes # <<>>
          /\ writes[Len(writes)].key = reads[idx].key
          /\ \A j \in 1..(idx - 1) :
                Differed(reads[j]) => store[reads[j].key] = OutOf(reads[j].value)
          /\ \A k \in 1..NumKeys :
                (Supplied(k) /\ SuppliedBefore(k) >= idx) =>
                    /\ store[AllKeys[k]] = store0[AllKeys[k]]
                    /\ \A j \in 1..Len(reads) : reads[j].key # AllKeys[k]
                    /\ \A j \in 1..Len(writes) : writes[j].key # AllKeys[k]

\* The write of the second of three supplied entries failed; the first
\* differed and was written, the third differs too.
C14_Witness ==
    /\ rpc = "failed"
    /\ idx = 2
    /\ \A k \in 1..3 : Supplied(k)
    /\ Differed(reads[1])
    /\ store[AllKeys[1]] = OutOf(reads[1].value)
    /\ store[AllKeys[3]] # OutOf(params[AllKeys[3]] = "True")
    /\ Len(writes) = 2

\* The read gave no value: the key is absent (the command failed) or the
\* output is neither "1" nor "0".
Unknown(r) == r.out \notin {"1", "0"}

\* C19: Unknown is distinct from false.  A store read that yields absent,
\* an error or an output other than "1" and "0" gives a current value that
\* is neither true nor false; the entry is reported as changed and,
\* outside check mode, a write of the desired value is issued for it, also
\* when the desired value is false.
C19_UnknownIsNotFalse ==
    /\ \A k \in Keys :
          store[k] \notin {"1", "0"} => read_default(store, k) \notin {"True", "False"}
    /\ \A j \in 1..Len(reads) :
          Unknown(reads[j]) =>
              /\ ~(rpc = "failed" /\ j = Len(reads)) => changed
              /\ ~check_mode =>
                    \E w \in 1..Len(writes) :
                        /\ writes[w].key = reads[j].key
                        /\ writes[w].bool_str = IF reads[j].value THEN "true" ELSE "false"

\* A real run found an absent key whose desired value is false, wrote it
\* and reported changed.
C19_Witness ==
    /\ rpc = "exited"
    /\ ~check_mode
    /\ changed
    /\ \E j \in 1..Len(reads) :
          /\ reads[j].out = "absent"
          /\ ~reads[j].value
          /\ store[reads[j].key] = "0"
          /\ \E w \in 1..Len(writes) :
                writes[w] = [key |-> reads[j].key, bool_str |-> "false"]

=============================================================================
